---------------------------- MODULE Spec2Model ----------------------------
(***************************************************************************)
(* The ERC-20 ledger of src/erc20/lib.rs (an ink! contract) as a state     *)
(* machine.  The contract's storage (total_supply, balances, allowances)   *)
(* and the environment's event channel are the state; the constructors     *)
(* give the initial states and every #[ink(message)] is one action.        *)
(* Calls are executed one at a time, each to completion.                   *)
(*                                                                         *)
(* Balance is u128 in the contract.  Here it is the range 0..MaxBalance,   *)
(* so that the arithmetic of the contract keeps a width: an addition that  *)
(* exceeds MaxBalance either traps (a build with overflow checks: the call *)
(* is reverted and returns no Result) or wraps modulo MaxBalance + 1 (a    *)
(* build without them).  Both outcomes are successors.                     *)
(***************************************************************************)
EXTENDS Integers, Sequences, FiniteSets, TLC

\* Bounds of the model.
MaxBalance == 2          \* stands for u128::MAX, the largest Balance
MaxEvents == 3           \* Spec takes calls while the log is shorter than this
MaxEventsUnit == 6       \* the same for SpecUnit

Account == {"a1", "a2", "a3"}
Balance == 0 .. MaxBalance
\* The inputs of SpecUnit: two accounts moving single units.
UnitAccount == {"a1", "a2"}
UnitValue == {1}

VARIABLES
    total_supply,   \* Lazy<Balance>
    balances,       \* HashMap<AccountId, Balance>: a function on the keys inserted
    allowances,     \* HashMap<(AccountId, AccountId), Balance>
    events,         \* what emit_event has appended, oldest first
    call            \* the call the dispatch layer has executed and what it returned,
                    \* or Idle once the result is handed back

vars == <<total_supply, balances, allowances, events, call>>

\* Option<T>
None == <<>>
Some(x) == <<x>>

\* An argument a call does not have.
NoArg == "-"

-----------------------------------------------------------------------------
\* HashMap::get(&k).copied().unwrap_or(0) and HashMap::insert(k, v)

GetOrZero(map, key) == IF key \in DOMAIN map THEN map[key] ELSE 0

Insert(map, key, val) ==
    [k \in (DOMAIN map) \cup {key} |-> IF k = key THEN val ELSE map[k]]

EmptyMap == [k \in {} |-> 0]

\* The three event structs.
TransferEvent(from, to, value) ==
    [event |-> "Transfer", from |-> from, to |-> to, value |-> value]

TransferFromEvent(spender, from, to, value) ==
    [event |-> "TransferFrom", spender |-> spender, from |-> from, to |-> to,
     value |-> value]

ApprovalEvent(owner, spender, value) ==
    [event |-> "Approval", owner |-> owner, spender |-> spender, value |-> value]

\* The record of a call: the message, its caller, its arguments, its return.
Call(op, caller, from, to, spender, value, result) ==
    [op |-> op, caller |-> caller, from |-> from, to |-> to, spender |-> spender,
     value |-> value, result |-> result]

\* No call is being executed: the dispatch layer is ready for the next one.
Idle == Call("idle", NoArg, NoArg, NoArg, NoArg, NoArg, NoArg)

-----------------------------------------------------------------------------
\* The queries.

balance_of(who) == GetOrZero(balances, who)

allowance(owner, spender) == GetOrZero(allowances, <<owner, spender>>)


-----------------------------------------------------------------------------
\* The constructors.  A constructor's result is the storage it returns and the
\* event it emitted.

\* new without the insert of line 62
new_no_credit(caller, init_value) ==
    [total_supply |-> init_value,
     balances     |-> EmptyMap,
     allowances   |-> EmptyMap,
     events       |-> <<TransferEvent(None, Some(caller), init_value)>>]

new(caller, init_value) ==
    [total_supply |-> init_value,
     balances     |-> Insert(EmptyMap, caller, init_value),
     allowances   |-> EmptyMap,
     events       |-> <<TransferEvent(None, Some(caller), init_value)>>]

\* Default::default() of Balance
DefaultBalance == 0

default(caller) == new(caller, DefaultBalance)

\* The state after the deployment `op` by `caller` that constructed `s`.
Deployed(op, caller, value, s) ==
    /\ total_supply = s.total_supply
    /\ balances = s.balances
    /\ allowances = s.allowances
    /\ events = s.events
    /\ call = Call(op, caller, NoArg, NoArg, NoArg, value, "Ok")

Deploy(accounts) ==
    \E caller \in accounts :
        \/ \E init_value \in Balance :
               Deployed("new", caller, init_value, new(caller, init_value))
        \/ Deployed("default", caller, NoArg, default(caller))

\* The contract reads an account id only to compare it with another, so a run
\* deployed by one account is, with the accounts renamed, the run deployed by
\* any other: the deployer is a1.
Deployer == {"a1"}

Init == Deploy(Deployer)

-----------------------------------------------------------------------------
\* The messages.  `checked` is the build's choice for an addition that exceeds
\* the width of Balance: TRUE traps, FALSE wraps.

\* The checks of lines 128 and 161, and the new allowance of line 143.
\* the allowance check of line 128 refusing the whole allowance too
ExceedsAllowance_strict(value, allowed) == value >= allowed

ExceedsAllowance(value, allowed) == value > allowed

\* the balance check of line 161, one unit too lax
ExceedsBalance_lax(value, from_balance) == value > from_balance + 1

ExceedsBalance(value, from_balance) == value > from_balance

\* the new allowance of line 143 without the subtraction
NewAllowance_kept(allowed, value) == allowed

NewAllowance(allowed, value) == allowed - value

\* What inter_transfer returns, the balances it leaves and the events it emits.
inter_transfer(from, to, value, checked) ==
    LET from_balance == GetOrZero(balances, from) IN
    IF ExceedsBalance(value, from_balance)
    THEN [result |-> "InsufficientBalance", balances |-> balances, emitted |-> <<>>]
    ELSE LET to_balance == GetOrZero(balances, to)
             debited    == Insert(balances, from, from_balance - value)
             credit     == to_balance + value
         IN  IF credit > MaxBalance /\ checked
             THEN [result |-> "Trap", balances |-> balances, emitted |-> <<>>]
             ELSE [result   |-> "Ok",
                   balances |-> Insert(debited, to, credit % (MaxBalance + 1)),
                   emitted  |-> <<TransferEvent(Some(from), Some(to), value)>>]

\* approve adding to the stored allowance instead of overwriting it
approve_additive(caller, spender, value) ==
    LET owner == caller IN
    /\ allowances' = Insert(allowances, <<owner, spender>>,
                            allowance(owner, spender) + value)
    /\ events' = Append(events, ApprovalEvent(owner, spender, value))
    /\ call' = Call("approve", caller, NoArg, NoArg, spender, value, "Ok")
    /\ UNCHANGED <<total_supply, balances>>

approve(caller, spender, value) ==
    LET owner == caller IN
    /\ allowances' = Insert(allowances, <<owner, spender>>, value)
    /\ events' = Append(events, ApprovalEvent(owner, spender, value))
    /\ call' = Call("approve", caller, NoArg, NoArg, spender, value, "Ok")
    /\ UNCHANGED <<total_supply, balances>>

\* transfer adding the amount it moves to total_supply
transfer_minting(caller, to, value, checked) ==
    LET from == caller
        r    == inter_transfer(from, to, value, checked)
    IN  /\ balances' = r.balances
        /\ events' = events \o r.emitted
        /\ call' = Call("transfer", caller, NoArg, to, NoArg, value, r.result)
        /\ total_supply' = IF r.result = "Ok" THEN total_supply + value
                           ELSE total_supply
        /\ UNCHANGED allowances

transfer(caller, to, value, checked) ==
    LET from == caller
        r    == inter_transfer(from, to, value, checked)
    IN  /\ balances' = r.balances
        /\ events' = events \o r.emitted
        /\ call' = Call("transfer", caller, NoArg, to, NoArg, value, r.result)
        /\ UNCHANGED <<total_supply, allowances>>

\* The Approval event transfer_from emits (lines 147-153).
TransferFromApproval(from, caller, value, new_allowance) ==
    ApprovalEvent(from, caller, value)

\* transfer_from calling inter_transfer before it compares the allowance
transfer_from_balance_first(caller, from, to, value, checked) ==
    LET allowed == allowance(from, caller)
        done(result) == Call("transfer_from", caller, from, to, NoArg, value, result)
        r == inter_transfer(from, to, value, checked)
    IN  IF r.result # "Ok" \/ ExceedsAllowance(value, allowed)
        THEN /\ call' = done(IF r.result # "Ok" THEN r.result
                             ELSE "InsufficientApproval")
             /\ UNCHANGED <<total_supply, balances, allowances, events>>
        ELSE LET new_allowance == NewAllowance(allowed, value) IN
             /\ balances' = r.balances
             /\ allowances' = Insert(allowances, <<from, caller>>, new_allowance)
             /\ events' = events \o r.emitted \o
                    <<TransferFromEvent(Some(caller), Some(from), Some(to), value),
                      TransferFromApproval(from, caller, value, new_allowance)>>
             /\ call' = done("Ok")
             /\ UNCHANGED total_supply

\* transfer_from writing the new allowance before it calls inter_transfer
transfer_from_allowance_first(caller, from, to, value, checked) ==
    LET allowed == allowance(from, caller)
        done(result) == Call("transfer_from", caller, from, to, NoArg, value, result)
    IN  IF ExceedsAllowance(value, allowed)
        THEN /\ call' = done("InsufficientApproval")
             /\ UNCHANGED <<total_supply, balances, allowances, events>>
        ELSE LET new_allowance == NewAllowance(allowed, value)
                 r == inter_transfer(from, to, value, checked)
             IN  /\ allowances' = Insert(allowances, <<from, caller>>, new_allowance)
                 /\ call' = done(r.result)
                 /\ balances' = r.balances
                 /\ events' = IF r.result = "Ok"
                              THEN events \o r.emitted \o
                                   <<TransferFromEvent(Some(caller), Some(from),
                                                       Some(to), value),
                                     TransferFromApproval(from, caller, value,
                                                          new_allowance)>>
                              ELSE events
                 /\ UNCHANGED total_supply

\* transfer_from emitting its TransferFrom event before it calls inter_transfer
transfer_from_event_first(caller, from, to, value, checked) ==
    LET allowed == allowance(from, caller)
        done(result) == Call("transfer_from", caller, from, to, NoArg, value, result)
        announced == <<TransferFromEvent(Some(caller), Some(from), Some(to), value)>>
    IN  IF ExceedsAllowance(value, allowed)
        THEN /\ call' = done("InsufficientApproval")
             /\ UNCHANGED <<total_supply, balances, allowances, events>>
        ELSE LET r == inter_transfer(from, to, value, checked) IN
             IF r.result = "Trap"
             THEN /\ call' = done(r.result)
                  /\ UNCHANGED <<total_supply, balances, allowances, events>>
             ELSE IF r.result # "Ok"
             THEN /\ call' = done(r.result)
                  /\ events' = events \o announced
                  /\ UNCHANGED <<total_supply, balances, allowances>>
             ELSE LET new_allowance == NewAllowance(allowed, value) IN
                  /\ balances' = r.balances
                  /\ allowances' = Insert(allowances, <<from, caller>>, new_allowance)
                  /\ events' = events \o announced \o r.emitted \o
                         <<TransferFromApproval(from, caller, value, new_allowance)>>
                  /\ call' = done("Ok")
                  /\ UNCHANGED total_supply

transfer_from(caller, from, to, value, checked) ==
    LET allowed == allowance(from, caller)
        done(result) == Call("transfer_from", caller, from, to, NoArg, value, result)
    IN  IF ExceedsAllowance(value, allowed)
        THEN /\ call' = done("InsufficientApproval")
             /\ UNCHANGED <<total_supply, balances, allowances, events>>
        ELSE LET r == inter_transfer(from, to, value, checked) IN
             IF r.result # "Ok"
             THEN /\ call' = done(r.result)
                  /\ UNCHANGED <<total_supply, balances, allowances, events>>
             ELSE LET new_allowance == NewAllowance(allowed, value) IN
                  /\ balances' = r.balances
                  /\ allowances' = Insert(allowances, <<from, caller>>, new_allowance)
                  /\ events' = events \o r.emitted \o
                         <<TransferFromEvent(Some(caller), Some(from), Some(to), value),
                           TransferFromApproval(from, caller, value, new_allowance)>>
                  /\ call' = done("Ok")
                  /\ UNCHANGED total_supply

\* The queries as calls: they return a Balance and write nothing.
call_total_supply ==
    /\ call' = Call("total_supply", NoArg, NoArg, NoArg, NoArg, NoArg, total_supply)
    /\ UNCHANGED <<total_supply, balances, allowances, events>>

\* balance_of storing the default it returns for an absent key
call_balance_of_inserting(who) ==
    /\ call' = Call("balance_of", NoArg, who, NoArg, NoArg, NoArg, balance_of(who))
    /\ balances' = Insert(balances, who, balance_of(who))
    /\ UNCHANGED <<total_supply, allowances, events>>

call_balance_of(who) ==
    /\ call' = Call("balance_of", NoArg, who, NoArg, NoArg, NoArg, balance_of(who))
    /\ UNCHANGED <<total_supply, balances, allowances, events>>

call_allowance(owner, spender) ==
    /\ call' = Call("allowance", NoArg, owner, NoArg, spender, NoArg,
                    allowance(owner, spender))
    /\ UNCHANGED <<total_supply, balances, allowances, events>>

-----------------------------------------------------------------------------
\* The dispatch layer hands the result of the call to its caller.  Calls are
\* executed one at a time and to completion: the next one starts after this.
Return ==
    /\ call.op # "idle"
    /\ call' = Idle
    /\ UNCHANGED <<total_supply, balances, allowances, events>>

\* Spec: every message, by every caller, with every argument, one call at a
\* time, while the log is shorter than MaxEvents.

\* The dispatch layer takes another call.
Open == call.op = "idle" /\ Len(events) < MaxEvents

Next ==
    \/ \E caller, spender \in Account, value \in Balance :
           Open /\ approve(caller, spender, value)
    \/ \E caller, to \in Account, value \in Balance, checked \in BOOLEAN :
           Open /\ transfer(caller, to, value, checked)
    \/ \E caller, from, to \in Account, value \in Balance, checked \in BOOLEAN :
           Open /\ transfer_from(caller, from, to, value, checked)
    \/ Open /\ call_total_supply
    \/ \E who \in Account : Open /\ call_balance_of(who)
    \/ \E owner, spender \in Account : Open /\ call_allowance(owner, spender)
    \/ Return

Spec == Init /\ [][Next]_vars

\* SpecUnit: the runs of the contract in which two accounts move single units,
\* followed further (to MaxEventsUnit events).

InitUnit == Deploy(Deployer)

OpenUnit == call.op = "idle" /\ Len(events) < MaxEventsUnit

NextUnit ==
    \/ \E caller, spender \in UnitAccount, value \in UnitValue :
           OpenUnit /\ approve(caller, spender, value)
    \/ \E caller, to \in UnitAccount, value \in UnitValue, checked \in BOOLEAN :
           OpenUnit /\ transfer(caller, to, value, checked)
    \/ \E caller, from, to \in UnitAccount, value \in UnitValue,
          checked \in BOOLEAN :
           OpenUnit /\ transfer_from(caller, from, to, value, checked)
    \/ Return

SpecUnit == InitUnit /\ [][NextUnit]_vars

-----------------------------------------------------------------------------
\* The claims.  A step is the call that call' records; a state is the state
\* after the call that call records.

RECURSIVE SumBalances(_)
SumBalances(S) ==
    IF S = {} THEN 0
    ELSE LET a == CHOOSE x \in S : TRUE
         IN  balance_of(a) + SumBalances(S \ {a})

Pairs == Account \X Account

\* C1: in every reachable state the sum of balance_of(a) over all accounts a
\* equals total_supply.
C1_SupplyConservation == SumBalances(Account) = total_supply

\* In the formulas of steps, the caller, the accounts and the amount of the
\* call are those call' records.

\* C2: a transfer, or an authorized transfer_from, with from = to = A and
\* value <= balance_of(A) returns Ok, leaves balance_of(A) as it was and appends
\* the event Transfer {Some(A), Some(A), value}.
C2_SelfTransfer ==
    [][ /\ call'.op = "transfer" =>
            \A A \in {call'.caller}, v \in {call'.value} :
                (call'.to = A /\ v <= balance_of(A)) =>
                    /\ call'.result = "Ok"
                    /\ balance_of(A)' = balance_of(A)
                    /\ events' = Append(events, TransferEvent(Some(A), Some(A), v))
        /\ call'.op = "transfer_from" =>
            \A S \in {call'.caller}, A \in {call'.from}, v \in {call'.value} :
                (/\ call'.to = A
                 /\ v <= allowance(A, S)
                 /\ v <= balance_of(A)) =>
                    /\ call'.result = "Ok"
                    /\ balance_of(A)' = balance_of(A)
                    /\ Len(events') > Len(events)
                    /\ events'[Len(events) + 1] = TransferEvent(Some(A), Some(A), v)
      ]_vars

\* C3: transfer(B, v) called by A, with balance_of(A) >= v and A # B, returns
\* Ok, takes exactly v from balance_of(A), adds exactly v to balance_of(B),
\* leaves every other balance, total_supply and all allowances as they were,
\* and appends exactly the event Transfer {Some(A), Some(B), v}.
C3_TransferMovesValue ==
    [][ call'.op = "transfer" =>
            \A A \in {call'.caller}, B \in {call'.to}, v \in {call'.value} :
                (A # B /\ balance_of(A) >= v) =>
                    /\ call'.result = "Ok"
                    /\ balance_of(A)' = balance_of(A) - v
                    /\ balance_of(B)' = balance_of(B) + v
                    /\ \A X \in Account \ {A, B} : balance_of(X)' = balance_of(X)
                    /\ total_supply' = total_supply
                    /\ allowances' = allowances
                    /\ events' = Append(events, TransferEvent(Some(A), Some(B), v))
      ]_vars

\* C4: transfer(B, v) called by A with balance_of(A) < v returns
\* Err(InsufficientBalance) and leaves total_supply, every balance, every
\* allowance and the event log as they were.
C4_FailedTransferNoOp ==
    [][ call'.op = "transfer" =>
            \A A \in {call'.caller}, v \in {call'.value} :
                balance_of(A) < v =>
                    /\ call'.result = "InsufficientBalance"
                    /\ UNCHANGED <<total_supply, balances, allowances, events>>
      ]_vars

C4_Witness ==
    /\ call.op = "transfer"
    /\ call.result = "InsufficientBalance"
    /\ balance_of(call.caller) < call.value
    /\ balance_of(call.caller) > 0

\* C5: transfer_from(A, C, v) called by S with v > allowance(A, S) returns
\* Err(InsufficientApproval), also when balance_of(A) < v, and leaves
\* total_supply, every balance, every allowance and the event log as they were.
C5_AllowanceCheckFirst ==
    [][ call'.op = "transfer_from" =>
            \A S \in {call'.caller}, A \in {call'.from}, v \in {call'.value} :
                v > allowance(A, S) =>
                    /\ call'.result = "InsufficientApproval"
                    /\ UNCHANGED <<total_supply, balances, allowances, events>>
      ]_vars

\* both checks fail, and the allowance is one that was approved
C5_Witness ==
    /\ call.op = "transfer_from"
    /\ call.result = "InsufficientApproval"
    /\ call.value > allowance(call.from, call.caller)
    /\ allowance(call.from, call.caller) > 0
    /\ call.value > balance_of(call.from)

\* C6: transfer_from(A, C, v) called by S with v <= allowance(A, S) and
\* v > balance_of(A) returns Err(InsufficientBalance); allowance(A, S) is not
\* decremented, no balance changes and no event is appended.
C6_InsufficientBalanceKeepsAllowance ==
    [][ call'.op = "transfer_from" =>
            \A S \in {call'.caller}, A \in {call'.from}, v \in {call'.value} :
                (v <= allowance(A, S) /\ v > balance_of(A)) =>
                    /\ call'.result = "InsufficientBalance"
                    /\ allowance(A, S)' = allowance(A, S)
                    /\ \A X \in Account : balance_of(X)' = balance_of(X)
                    /\ events' = events
      ]_vars

C6_Witness ==
    /\ call.op = "transfer_from"
    /\ call.result = "InsufficientBalance"
    /\ call.value <= allowance(call.from, call.caller)
    /\ call.value > balance_of(call.from)

\* C7: transfer_from(A, C, v) called by S with v <= allowance(A, S),
\* v <= balance_of(A) and A # C returns Ok, takes v from balance_of(A), adds v to
\* balance_of(C), makes allowance(A, S) its old value minus v, and leaves every
\* other balance, every other allowance and total_supply as they were.
C7_TransferFromEffect ==
    [][ call'.op = "transfer_from" =>
            \A S \in {call'.caller}, A \in {call'.from}, C \in {call'.to},
               v \in {call'.value} :
                (v <= allowance(A, S) /\ v <= balance_of(A) /\ A # C) =>
                    /\ call'.result = "Ok"
                    /\ balance_of(A)' = balance_of(A) - v
                    /\ balance_of(C)' = balance_of(C) + v
                    /\ allowance(A, S)' = allowance(A, S) - v
                    /\ \A X \in Account \ {A, C} : balance_of(X)' = balance_of(X)
                    /\ \A p \in Pairs \ {<<A, S>>} :
                           allowance(p[1], p[2])' = allowance(p[1], p[2])
                    /\ total_supply' = total_supply
      ]_vars

\* C8: the Approval event that a successful transfer_from(A, C, v) called by S
\* appends is {owner: A, spender: S, value: the allowance(A, S) read right after
\* the call}.
C8_ApprovalCarriesNewAllowance ==
    [][ (call'.op = "transfer_from" /\ call'.result = "Ok") =>
            \A S \in {call'.caller}, A \in {call'.from} :
                events'[Len(events')] = ApprovalEvent(A, S, allowance(A, S)')
      ]_vars

\* C9: approve(B, v) called by A returns Ok and leaves allowance(A, B) = v
\* whatever it was before and however v compares with balance_of(A); every other
\* allowance (allowance(B, A) too), every balance and total_supply stay as they
\* were, and exactly the event Approval {A, B, v} is appended.
C9_ApproveOverwrites ==
    [][ call'.op = "approve" =>
            \A A \in {call'.caller}, B \in {call'.spender}, v \in {call'.value} :
                /\ call'.result = "Ok"
                /\ allowance(A, B)' = v
                /\ \A p \in Pairs \ {<<A, B>>} :
                       allowance(p[1], p[2])' = allowance(p[1], p[2])
                /\ UNCHANGED <<total_supply, balances>>
                /\ events' = Append(events, ApprovalEvent(A, B, v))
      ]_vars

\* a second approve of the same pair, with another amount, above the balance
C9_Witness ==
    /\ call.op = "approve"
    /\ Len(events) = 3
    /\ events[2].event = "Approval"
    /\ events[3] = ApprovalEvent(call.caller, call.spender, call.value)
    /\ events[2].owner = call.caller
    /\ events[2].spender = call.spender
    /\ events[2].value > 0
    /\ events[2].value # call.value
    /\ call.value > balance_of(call.caller)
    /\ allowance(call.caller, call.spender) = call.value

\* C10: after new(N) by A, total_supply = N, balance_of(A) = N, every other
\* balance is 0, every allowance is 0 and the log is exactly
\* <<Transfer {None, Some(A), N}>>; after default() the same with N = 0.
C10_Construction ==
    call.op \in {"new", "default"} =>
        LET A == call.caller
            N == IF call.op = "new" THEN call.value ELSE 0
        IN  /\ total_supply = N
            /\ balance_of(A) = N
            /\ \A X \in Account \ {A} : balance_of(X) = 0
            /\ \A p \in Pairs : allowance(p[1], p[2]) = 0
            /\ events = <<TransferEvent(None, Some(A), N)>>

C10_Witness ==
    /\ call.op = "new"
    /\ call.value > 0
    /\ total_supply = call.value

\* The messages that write, and what the contract declares they return.
Writes == {"approve", "transfer", "transfer_from"}

Results == {"Ok", "InsufficientBalance", "InsufficientApproval"}

\* C11: every call of transfer, transfer_from and approve returns Ok,
\* InsufficientBalance or InsufficientApproval: none aborts on its arithmetic,
\* the credit to_balance + value of an accepted transfer staying within the
\* width of Balance.
C11_NoArithmeticAbort ==
    call.op \in Writes => call.result \in Results

\* C12: total_supply is the value given at construction in every reachable
\* state: no call of transfer, approve or transfer_from, successful or failing,
\* changes it, and the query returns it.
C12_SupplyFixed ==
    /\ total_supply = events[1].value
    /\ call.op = "total_supply" => call.result = events[1].value

\* a transfer that moved value, after which the supply is the one constructed
C12_Witness ==
    /\ call.op = "transfer"
    /\ call.result = "Ok"
    /\ call.value > 0
    /\ events[1] = TransferEvent(None, Some("a1"), total_supply)

\* The history of a pair (A, S) as the log tells it.  transfer_from emits its
\* Approval right after its TransferFrom; every other Approval is approve's.
IsApproveAt(log, i, A, S) ==
    /\ log[i].event = "Approval"
    /\ log[i - 1].event # "TransferFrom"
    /\ log[i].owner = A
    /\ log[i].spender = S

\* the place in the log of A's latest approve for S, 0 when there is none
LastApprove(log, A, S) ==
    LET at == {i \in 2 .. Len(log) : IsApproveAt(log, i, A, S)}
    IN  IF at = {} THEN 0 ELSE CHOOSE i \in at : \A j \in at : j <= i

\* the sum of the amounts of S's successful transfer_from(A, _, _) after place i
RECURSIVE SpentAfter(_, _, _, _)
SpentAfter(log, i, A, S) ==
    IF i >= Len(log) THEN 0
    ELSE LET e == log[i + 1]
             here == IF /\ e.event = "TransferFrom"
                        /\ e.spender = Some(S)
                        /\ e.from = Some(A)
                     THEN e.value ELSE 0
         IN  here + SpentAfter(log, i + 1, A, S)

Capped(log) ==
    \A A, S \in Account :
        LET i == LastApprove(log, A, S)
        IN  i > 0 => SpentAfter(log, i, A, S) <= log[i].value

\* C13: after A's approve(S, v), and until A's next approve for S, the amounts
\* of S's successful transfer_from(A, _, _) calls sum to at most v; the call
\* that would take the sum above v returns Err(InsufficientApproval) and leaves
\* balance_of(A) and allowance(A, S) as they were.
C13_SpendingCap ==
    [][ /\ Capped(events')
        /\ call'.op = "transfer_from" =>
            \A S \in {call'.caller}, A \in {call'.from}, v \in {call'.value} :
                LET i == LastApprove(events, A, S)
                IN  (i > 0 /\ SpentAfter(events, i, A, S) + v > events[i].value) =>
                        /\ call'.result = "InsufficientApproval"
                        /\ balance_of(A)' = balance_of(A)
                        /\ allowance(A, S)' = allowance(A, S)
      ]_vars

\* S has spent all that A approved, A could pay more, and S's next call fails
C13_Witness ==
    /\ call.op = "transfer_from"
    /\ call.result = "InsufficientApproval"
    /\ balance_of(call.from) >= call.value
    /\ LET i == LastApprove(events, call.from, call.caller)
       IN  /\ i > 0
           /\ events[i].value > 0
           /\ SpentAfter(events, i, call.from, call.caller) = events[i].value

\* log is the beginning of longer
IsPrefix(log, longer) ==
    /\ Len(log) <= Len(longer)
    /\ SubSeq(longer, 1, Len(log)) = log

\* C14: a successful transfer_from(A, C, v) called by S appends exactly three
\* events, in this order: Transfer {Some(A), Some(C), v}, TransferFrom
\* {Some(S), Some(A), Some(C), v}, an Approval of owner A and spender S.  The
\* log is append-only: no step removes or rewrites an event, and a call that
\* fails appends nothing.
C14_EventOrder ==
    [][ /\ IsPrefix(events, events')
        /\ (call'.op \in Writes /\ call'.result # "Ok") => events' = events
        /\ (call'.op = "transfer_from" /\ call'.result = "Ok") =>
            \A S \in {call'.caller}, A \in {call'.from}, C \in {call'.to},
               v \in {call'.value} :
                /\ Len(events') = Len(events) + 3
                /\ events'[Len(events) + 1] = TransferEvent(Some(A), Some(C), v)
                /\ events'[Len(events) + 2] =
                       TransferFromEvent(Some(S), Some(A), Some(C), v)
                /\ events'[Len(events) + 3].event = "Approval"
                /\ events'[Len(events) + 3].owner = A
                /\ events'[Len(events) + 3].spender = S
      ]_vars

\* a delegated transfer among three accounts that moved value
C14_Witness ==
    /\ call.op = "transfer_from"
    /\ call.result = "Ok"
    /\ call.value > 0
    /\ Cardinality({call.caller, call.from, call.to}) = 3
    /\ Len(events) = 5
    /\ events[3] = TransferEvent(Some(call.from), Some(call.to), call.value)
    /\ events[4].event = "TransferFrom"
    /\ events[5].event = "Approval"

\* C15: in every step, balance_of(X) decreases only if the step is a successful
\* transfer called by X, or a successful transfer_from(X, _, v) called by some S
\* with allowance(X, S) >= v before the call; and allowance(O, S) changes only
\* if the step is an approve for S called by O or a successful
\* transfer_from(O, _, _) called by S.
C15_Authorization ==
    [][ /\ \A X \in Account :
               balance_of(X)' < balance_of(X) =>
                   /\ call'.result = "Ok"
                   /\ \/ call'.op = "transfer" /\ call'.caller = X
                      \/ /\ call'.op = "transfer_from"
                         /\ call'.from = X
                         /\ \E S \in {call'.caller}, v \in {call'.value} :
                                allowance(X, S) >= v
        /\ \A p \in Pairs :
               allowance(p[1], p[2])' # allowance(p[1], p[2]) =>
                   \/ /\ call'.op = "approve"
                      /\ call'.caller = p[1]
                      /\ call'.spender = p[2]
                   \/ /\ call'.op = "transfer_from"
                      /\ call'.result = "Ok"
                      /\ call'.from = p[1]
                      /\ call'.caller = p[2]
      ]_vars

\* C16: total_supply, balance_of and allowance write nothing: a call of one of
\* them leaves total_supply, balances, allowances and the event log as they
\* were; each returns the stored value, and balance_of and allowance return 0
\* for a key that was never written.
C16_QueriesReadOnly ==
    [][ /\ call'.op \in {"total_supply", "balance_of", "allowance"} =>
               UNCHANGED <<total_supply, balances, allowances, events>>
        /\ call'.op = "total_supply" => call'.result = total_supply
        /\ call'.op = "balance_of" =>
               \A who \in {call'.from} :
                   call'.result = IF who \in DOMAIN balances
                                  THEN balances[who] ELSE 0
        /\ call'.op = "allowance" =>
               \A owner \in {call'.from}, spender \in {call'.spender} :
                   call'.result = IF <<owner, spender>> \in DOMAIN allowances
                                  THEN allowances[<<owner, spender>>] ELSE 0
      ]_vars

\* the balance of an account that was never written, while another holds value
C16_Witness ==
    /\ call.op = "balance_of"
    /\ call.from \notin DOMAIN balances
    /\ call.result = 0
    /\ total_supply > 0

\* C17: transfer_from(A, C, 0) returns Ok for every caller S and all accounts
\* A and C, also with allowance(A, S) = 0 and balance_of(A) = 0; every
\* balance_of and every allowance reads as before, and a Transfer, a
\* TransferFrom and an Approval event are appended.
C17_ZeroTransferFrom ==
    [][ (call'.op = "transfer_from" /\ call'.value = 0) =>
            \A S \in {call'.caller}, A \in {call'.from}, C \in {call'.to} :
                /\ call'.result = "Ok"
                /\ \A X \in Account : balance_of(X)' = balance_of(X)
                /\ \A p \in Pairs : allowance(p[1], p[2])' = allowance(p[1], p[2])
                /\ Len(events') = Len(events) + 3
                /\ SubSeq(events', 1, Len(events)) = events
                /\ events'[Len(events) + 1] = TransferEvent(Some(A), Some(C), 0)
                /\ events'[Len(events) + 2] =
                       TransferFromEvent(Some(S), Some(A), Some(C), 0)
                /\ events'[Len(events) + 3].event = "Approval"
      ]_vars

\* nothing approved and nothing held, and the call is accepted
C17_Witness ==
    /\ call.op = "transfer_from"
    /\ call.value = 0
    /\ call.result = "Ok"
    /\ call.caller # call.from
    /\ Len(events) = 4
    /\ allowance(call.from, call.caller) = 0
    /\ balance_of(call.from) = 0
    /\ total_supply > 0

=============================================================================
